---- MODULE Spec2Model ----
(***************************************************************************)
(* Model of sge-scene-manager (src/src/lib.rs): a stack of scenes, the     *)
(* Transition values scenes return, and SceneManager's direct methods and  *)
(* frame dispatch (on_update / on_event).                                  *)
(*                                                                         *)
(* A scene is an identifier.  What a scene's callbacks do is application   *)
(* code: every lifecycle callback may succeed or fail, draw_next and       *)
(* "handled" may be either boolean, on_update / on_event may return any    *)
(* Transition.  Those outcomes are the inputs of the actions.              *)
(***************************************************************************)
EXTENDS Integers, Sequences, FiniteSets

\* ------------------------------------------------------------------ bounds
MaxStack == 3      \* scenes on the stack (pushes are not requested beyond it)
MaxOps == 4        \* length of the operations buffer during one dispatch
MaxLives == 2      \* times the host passes one and the same scene to the manager

VARIABLES
    scenes,        \* SceneManager.scenes: the stack, bottom first
    operations,    \* SceneManager.operations: the pending transitions
    pc,            \* where the program is: "idle" between calls, inside a dispatch, or "aborted"
    idx,           \* position of the iterator scenes.iter_mut().rev() during a walk
    was_handled,   \* on_event's local was_handled
    walked,        \* the scene callbacks the walk of the current (or last) dispatch has invoked
    applied,       \* the transitions the current (or last) dispatch has handed to apply_to
    last,          \* the latest stack mutation of the current (or last) call: method, input,
                   \* stack before and after, the callbacks it invoked, its result
    ret,           \* what the last call returned
    scenes0,       \* the stack when the current (or last) call started
    ops0,          \* the operations buffer when the current (or last) call started
    clean,         \* so far the stack was changed only through transitions and no callback failed
    balance,       \* while clean: per stack slot, on_pause calls minus on_unpause calls received
    lives,         \* per stack slot, how many on_enter and on_leave calls the scene has received
    gone,          \* the same counts for the scene the latest mutation removed from the stack
    incoming       \* the same counts for the scene the host passes to the current call

vars == <<scenes, operations, pc, idx, was_handled, walked, applied, last, ret, scenes0, ops0,
          clean, balance, lives, gone, incoming>>

\* The history variables, which no line of the program reads.
history == <<clean, balance, lives, gone, incoming>>

\* Names for the scenes alive at one time: those on the stack and those owned
\* by a Transition in the buffer.
SceneIds == 1..(MaxStack + MaxOps)

\* ------------------------------------------------------------- Transition
NoneT == [kind |-> "None", scene |-> 0]
PopT == [kind |-> "Pop", scene |-> 0]
PushT(s) == [kind |-> "Push", scene |-> s]
ReplaceT(s) == [kind |-> "Replace", scene |-> s]

\* One invocation of a Scene method: which, on which scene, its boolean
\* argument or result (draw_next's value, on_pause's should_draw, on_event's
\* handled), whether it returned Ok, the Transition it returned, and the
\* stack as it stood when it was invoked.
Call(cb, s, flag, ok, trans, stk) ==
    [cb |-> cb, scene |-> s, flag |-> flag, ok |-> ok, trans |-> trans, stk |-> stk]

\* What the callbacks reached by one stack mutation do: the new scene's
\* draw_next, and whether on_pause / on_enter / on_leave / on_unpause succeed.
Outcomes == [dn : BOOLEAN, pause : BOOLEAN, enter : BOOLEAN, leave : BOOLEAN, unpause : BOOLEAN]

\* The outcomes that differ only in the callbacks named in `fields`.
Vary(fields) ==
    {o \in Outcomes : \A f \in {"dn", "pause", "enter", "leave", "unpause"} \ fields : o[f]}

\* The callbacks each arm of apply_to can reach.
Reached(trans) ==
    CASE trans.kind = "Push" -> Vary({"dn", "pause", "enter"})
      [] trans.kind = "Pop" -> Vary({"leave", "unpause"})
      [] trans.kind = "Replace" -> Vary({"dn", "pause", "enter", "leave"})
      [] OTHER -> Vary({})

Top(stk) == stk[Len(stk)]
Below(stk) == SubSeq(stk, 1, Len(stk) - 1)

Result(stk, cs, res, out) == [scenes |-> stk, calls |-> cs, res |-> res, out |-> out]

\* apply_push with the bug "on_pause is not told whether it will be drawn".
apply_push_no_flag(new, stk, o) ==
    LET paused == IF stk # <<>>
                  THEN <<Call("draw_next", new, o.dn, TRUE, NoneT, stk),
                         Call("on_pause", Top(stk), FALSE, o.pause, NoneT, stk)>>
                  ELSE <<>>
    IN  IF stk # <<>> /\ ~o.pause
        THEN Result(stk, paused, "Err", 0)
        ELSE IF ~o.enter
        THEN Result(stk, paused \o <<Call("on_enter", new, FALSE, FALSE, NoneT, stk)>>, "Err", 0)
        ELSE Result(Append(stk, new),
                    paused \o <<Call("on_enter", new, FALSE, TRUE, NoneT, stk)>>, "Ok", 0)

\* apply_push with the bug "the scene is appended first, then the callbacks run".
apply_push_append_first(new, stk, o) ==
    LET paused == IF stk # <<>>
                  THEN <<Call("draw_next", new, o.dn, TRUE, NoneT, stk),
                         Call("on_pause", Top(stk), o.dn, o.pause, NoneT, Append(stk, new))>>
                  ELSE <<>>
    IN  IF stk # <<>> /\ ~o.pause
        THEN Result(Append(stk, new), paused, "Err", 0)
        ELSE Result(Append(stk, new),
                    paused \o <<Call("on_enter", new, FALSE, o.enter, NoneT, Append(stk, new))>>,
                    IF o.enter THEN "Ok" ELSE "Err", 0)

\* apply_push with the bug "the previous top is not paused".
apply_push_no_pause(new, stk, o) ==
    IF ~o.enter
    THEN Result(stk, <<Call("on_enter", new, FALSE, FALSE, NoneT, stk)>>, "Err", 0)
    ELSE Result(Append(stk, new), <<Call("on_enter", new, FALSE, TRUE, NoneT, stk)>>, "Ok", 0)

\* Transition::apply_to, arm Push
apply_push(new, stk, o) ==
    LET paused == IF stk # <<>>
                  THEN <<Call("draw_next", new, o.dn, TRUE, NoneT, stk),
                         Call("on_pause", Top(stk), o.dn, o.pause, NoneT, stk)>>
                  ELSE <<>>
    IN  IF stk # <<>> /\ ~o.pause
        THEN Result(stk, paused, "Err", 0)
        ELSE IF ~o.enter
        THEN Result(stk, paused \o <<Call("on_enter", new, FALSE, FALSE, NoneT, stk)>>, "Err", 0)
        ELSE Result(Append(stk, new),
                    paused \o <<Call("on_enter", new, FALSE, TRUE, NoneT, stk)>>, "Ok", 0)

\* apply_pop with the bug "popping an empty stack is a logic error".
apply_pop_expect(stk, o) ==
    IF stk = <<>>
    THEN Result(stk, <<>>, "Panic", 0)
    ELSE LET left == <<Call("on_leave", Top(stk), FALSE, o.leave, NoneT, Below(stk))>>
         IN  IF ~o.leave \/ Len(stk) = 1
             THEN Result(Below(stk), left, IF o.leave THEN "Ok" ELSE "Err", 0)
             ELSE Result(Below(stk),
                         left \o <<Call("on_unpause", Top(Below(stk)), FALSE, o.unpause,
                                        NoneT, Below(stk))>>,
                         IF o.unpause THEN "Ok" ELSE "Err", 0)

\* apply_pop with the bug "the new top is not unpaused".
apply_pop_no_unpause(stk, o) ==
    IF stk = <<>>
    THEN Result(stk, <<>>, "Ok", 0)
    ELSE Result(Below(stk), <<Call("on_leave", Top(stk), FALSE, o.leave, NoneT, Below(stk))>>,
                IF o.leave THEN "Ok" ELSE "Err", 0)

\* apply_pop with the bug "a scene whose on_leave fails stays on the stack".
apply_pop_leave_first(stk, o) ==
    IF stk = <<>>
    THEN Result(stk, <<>>, "Ok", 0)
    ELSE LET old == Top(stk)
             rest == Below(stk)
             left == <<Call("on_leave", old, FALSE, o.leave, NoneT, stk)>>
         IN  IF ~o.leave
             THEN Result(stk, left, "Err", 0)
             ELSE IF rest = <<>>
             THEN Result(rest, left, "Ok", 0)
             ELSE Result(rest,
                         left \o <<Call("on_unpause", Top(rest), FALSE, o.unpause, NoneT, rest)>>,
                         IF o.unpause THEN "Ok" ELSE "Err", 0)

\* apply_pop with the bug "the scene at the bottom is removed, not the top".
apply_pop_removes_bottom(stk, o) ==
    IF stk = <<>>
    THEN Result(stk, <<>>, "Ok", 0)
    ELSE LET old == Head(stk)
             rest == Tail(stk)
             left == <<Call("on_leave", old, FALSE, o.leave, NoneT, rest)>>
         IN  IF ~o.leave
             THEN Result(rest, left, "Err", 0)
             ELSE IF rest = <<>>
             THEN Result(rest, left, "Ok", 0)
             ELSE Result(rest,
                         left \o <<Call("on_unpause", Top(rest), FALSE, o.unpause, NoneT, rest)>>,
                         IF o.unpause THEN "Ok" ELSE "Err", 0)

\* Transition::apply_to, arm Pop
apply_pop(stk, o) ==
    IF stk = <<>>
    THEN Result(stk, <<>>, "Ok", 0)
    ELSE LET old == Top(stk)
             rest == Below(stk)
             left == <<Call("on_leave", old, FALSE, o.leave, NoneT, rest)>>
         IN  IF ~o.leave
             THEN Result(rest, left, "Err", 0)
             ELSE IF rest = <<>>
             THEN Result(rest, left, "Ok", 0)
             ELSE Result(rest,
                         left \o <<Call("on_unpause", Top(rest), FALSE, o.unpause, NoneT, rest)>>,
                         IF o.unpause THEN "Ok" ELSE "Err", 0)

\* apply_replace with the bug "the old scene leaves before the new one is
\* entered and installed" (the order Pop uses).
apply_replace_leave_first(new, stk, o) ==
    IF stk = <<>>
    THEN Result(stk, <<>>, "Panic", 0)
    ELSE LET old == Top(stk)
             swapped == Append(Below(stk), new)
             paused == <<Call("draw_next", new, o.dn, TRUE, NoneT, stk),
                         Call("on_pause", old, o.dn, o.pause, NoneT, stk)>>
             left == paused \o <<Call("on_leave", old, FALSE, o.leave, NoneT, stk)>>
         IN  IF ~o.pause
             THEN Result(stk, paused, "Err", 0)
             ELSE IF ~o.leave
             THEN Result(stk, left, "Err", 0)
             ELSE Result(IF o.enter THEN swapped ELSE stk,
                         left \o <<Call("on_enter", new, FALSE, o.enter, NoneT, stk)>>,
                         IF o.enter THEN "Ok" ELSE "Err", 0)

\* Transition::apply_to, arm Replace
apply_replace(new, stk, o) ==
    IF stk = <<>>
    THEN Result(stk, <<>>, "Panic", 0)
    ELSE LET old == Top(stk)
             swapped == Append(Below(stk), new)
             paused == <<Call("draw_next", new, o.dn, TRUE, NoneT, stk),
                         Call("on_pause", old, o.dn, o.pause, NoneT, stk)>>
             entered == paused \o <<Call("on_enter", new, FALSE, o.enter, NoneT, stk)>>
         IN  IF ~o.pause
             THEN Result(stk, paused, "Err", 0)
             ELSE IF ~o.enter
             THEN Result(stk, entered, "Err", 0)
             ELSE Result(swapped,
                         entered \o <<Call("on_leave", old, FALSE, o.leave, NoneT, swapped)>>,
                         IF o.leave THEN "Ok" ELSE "Err", 0)

\* Transition::apply_to
apply_to(trans, stk, o) ==
    CASE trans.kind = "Push" -> apply_push(trans.scene, stk, o)
      [] trans.kind = "Pop" -> apply_pop(stk, o)
      [] trans.kind = "Replace" -> apply_replace(trans.scene, stk, o)
      [] OTHER -> Result(stk, <<>>, "Ok", 0)

\* ----------------------------------------------- SceneManager, direct methods
\* push with the bug "the scene is appended before it is entered".
push_append_first(new, stk, o) ==
    Result(Append(stk, new),
           <<Call("on_enter", new, FALSE, o.enter, NoneT, Append(stk, new))>>,
           IF o.enter THEN "Ok" ELSE "Err", 0)

\* push with the bug "push notifies the previous top, as the Push transition does".
push_pauses(new, stk, o) == apply_push(new, stk, o)

\* SceneManager::push
push(new, stk, o) ==
    IF ~o.enter
    THEN Result(stk, <<Call("on_enter", new, FALSE, FALSE, NoneT, stk)>>, "Err", 0)
    ELSE Result(Append(stk, new), <<Call("on_enter", new, FALSE, TRUE, NoneT, stk)>>, "Ok", 0)

\* pop with the bug "the removed scene is handed back without on_leave".
pop_no_leave(stk, o) ==
    IF stk = <<>>
    THEN Result(stk, <<>>, "Ok", 0)
    ELSE Result(Below(stk), <<>>, "Ok", Top(stk))

\* SceneManager::pop (out: the scene handed back to the caller, 0 for None)
pop(stk, o) ==
    IF stk = <<>>
    THEN Result(stk, <<>>, "Ok", 0)
    ELSE LET old == Top(stk)
             rest == Below(stk)
         IN  Result(rest, <<Call("on_leave", old, FALSE, o.leave, NoneT, rest)>>,
                    IF o.leave THEN "Ok" ELSE "Err", IF o.leave THEN old ELSE 0)

\* replace with the bug "on an empty stack the new scene is entered and pushed".
replace_or_push(new, stk, o) ==
    LET entered == <<Call("on_enter", new, FALSE, o.enter, NoneT, stk)>>
    IN  IF ~o.enter
        THEN Result(stk, entered, "Err", 0)
        ELSE IF stk = <<>>
        THEN Result(<<new>>, entered, "Ok", 0)
        ELSE Result(Append(Below(stk), new),
                    entered \o <<Call("on_leave", Top(stk), FALSE, o.leave, NoneT,
                                       Append(Below(stk), new))>>,
                    IF o.leave THEN "Ok" ELSE "Err", IF o.leave THEN Top(stk) ELSE 0)

\* SceneManager::replace (out: the displaced scene)
replace(new, stk, o) ==
    IF stk = <<>>
    THEN Result(stk, <<>>, "Panic", 0)
    ELSE LET old == Top(stk)
             swapped == Append(Below(stk), new)
             entered == <<Call("on_enter", new, FALSE, o.enter, NoneT, stk)>>
         IN  IF ~o.enter
             THEN Result(stk, entered, "Err", 0)
             ELSE Result(swapped,
                         entered \o <<Call("on_leave", old, FALSE, o.leave, NoneT, swapped)>>,
                         IF o.leave THEN "Ok" ELSE "Err", IF o.leave THEN old ELSE 0)

\* --------------------------------------------------------------- the state
Range(f) == {f[i] : i \in DOMAIN f}

\* Scenes owned by the stack or by a Transition in the buffer.
Live == Range(scenes) \cup {operations[i].scene : i \in DOMAIN operations}

\* A scene value the application may construct: an identifier no live scene has.
FreeScenes == SceneIds \ Live
NewScene == CHOOSE s \in FreeScenes : \A t \in FreeScenes : s <= t

Pushes(ops) == Cardinality({i \in DOMAIN ops : ops[i].kind = "Push"})

\* The Transitions a callback (or the host) may produce in the current state.
CanReplace == FreeScenes # {}
CanPush == FreeScenes # {} /\ Len(scenes) + Pushes(operations) < MaxStack

\* Scene names mean nothing to the program (a scene is a Box the manager
\* owns).  Between calls the live scenes are renamed in order: the stack reads
\* <<1, .., n>> and the scenes held by buffered transitions follow.
Held(ops) ==
    LET with == SelectSeq(ops, LAMBDA t : t.scene # 0)
    IN  [i \in 1..Len(with) |-> with[i].scene]

Renamed(s) ==
    LET order == scenes \o Held(operations)
    IN  CHOOSE i \in 1..Len(order) : order[i] = s

RenamedScenes == [i \in 1..Len(scenes) |-> Renamed(scenes[i])]

RenamedOperations ==
    [i \in 1..Len(operations) |->
        IF operations[i].scene = 0 THEN operations[i]
        ELSE [operations[i] EXCEPT !.scene = Renamed(operations[i].scene)]]

Requests ==
    {NoneT, PopT}
    \cup (IF CanReplace THEN {ReplaceT(NewScene)} ELSE {})
    \cup (IF CanPush THEN {PushT(NewScene)} ELSE {})

Ret(op, res, val, s) == [op |-> op, res |-> res, val |-> val, scene |-> s]

Last(op, via, trans, before, r) ==
    [op |-> op, via |-> via, trans |-> trans, before |-> before,
     after |-> r.scenes, calls |-> r.calls, res |-> r.res]

NoLast == [op |-> "none", via |-> "none", trans |-> NoneT, before |-> <<>>,
           after |-> <<>>, calls |-> <<>>, res |-> "Ok"]

\* A scene just boxed: no callback has been invoked on it.
Fresh == [enter |-> 0, leave |-> 0]

\* How many of the invocations `cs` are callback `cb` on scene `s`.
Count(cs, cb, s) == Cardinality({i \in DOMAIN cs : cs[i].cb = cb /\ cs[i].scene = s})

\* Slot i holds the same scene before and after a mutation.
Kept(before, after, i) == i <= Len(before) /\ i <= Len(after) /\ after[i] = before[i]

\* The pause balance of each slot after a mutation with result r.
BalanceAfter(bal, before, r) ==
    [i \in 1..Len(r.scenes) |->
        (IF Kept(before, r.scenes, i) THEN bal[i] ELSE 0)
        + Count(r.calls, "on_pause", r.scenes[i])
        - Count(r.calls, "on_unpause", r.scenes[i])]

\* The on_enter / on_leave counts of each slot after a mutation with result r;
\* a scene new on the stack brings the counts `inc` it arrived with.
LivesAfter(lv, inc, before, r) ==
    [i \in 1..Len(r.scenes) |->
        LET was == IF Kept(before, r.scenes, i) THEN lv[i] ELSE inc
        IN  [enter |-> was.enter + Count(r.calls, "on_enter", r.scenes[i]),
             leave |-> was.leave + Count(r.calls, "on_leave", r.scenes[i])]]

\* The counts of the scene a mutation took off the stack (Fresh if it took none).
GoneAfter(lv, before, r) ==
    IF before # <<>> /\ Top(before) \notin Range(r.scenes)
    THEN [enter |-> lv[Len(before)].enter + Count(r.calls, "on_enter", Top(before)),
          leave |-> lv[Len(before)].leave + Count(r.calls, "on_leave", Top(before))]
    ELSE Fresh

\* The history after one mutation of the stack with result r, whose new scene
\* (if any) arrived with counts `inc`; byTransition: it was made by apply_to.
Track(r, inc, byTransition) ==
    /\ clean' = (/\ clean
                 /\ \A i \in DOMAIN r.calls : r.calls[i].ok
                 /\ byTransition \/ r.scenes = scenes)
    /\ balance' = IF clean' THEN BalanceAfter(balance, scenes, r) ELSE <<>>
    /\ lives' = LivesAfter(lives, inc, scenes, r)
    /\ gone' = GoneAfter(lives, scenes, r)
    /\ incoming' = Fresh

\* The history after a callback of the walk failed.
TrackWalkError ==
    /\ clean' = FALSE
    /\ balance' = <<>>
    /\ UNCHANGED <<lives, gone, incoming>>

\* SceneManager::new
Init ==
    /\ scenes = <<>>
    /\ operations = <<>>
    /\ pc = "idle"
    /\ idx = 0
    /\ was_handled = FALSE
    /\ walked = <<>>
    /\ applied = <<>>
    /\ last = NoLast
    /\ ret = Ret("new", "Ok", FALSE, 0)
    /\ scenes0 = <<>>
    /\ ops0 = <<>>
    /\ clean = TRUE
    /\ balance = <<>>
    /\ lives = <<>>
    /\ gone = Fresh
    /\ incoming = Fresh

Methods == {"apply", "push", "pop", "replace", "on_create", "on_update", "on_event"}

\* The calls the bounds of the model leave room for.
Callable(m) ==
    CASE m = "push" -> CanPush
      [] m = "replace" -> CanReplace
      [] m \in {"on_update", "on_event"} -> Len(operations) + Len(scenes) <= MaxOps
      [] OTHER -> TRUE

\* The host calls one public method of the manager.  The manager does not
\* reenter itself: a call starts only when none is running.
Enter(m, inc) ==
    /\ pc' = m
    /\ ret' = Ret(m, "Running", FALSE, 0)
    /\ incoming' = inc
    /\ gone' = Fresh
    /\ UNCHANGED <<clean, balance, lives>>
    /\ scenes' = RenamedScenes
    /\ operations' = RenamedOperations
    /\ scenes0' = RenamedScenes
    /\ ops0' = RenamedOperations
    /\ idx' = 0
    /\ was_handled' = FALSE
    /\ walked' = <<>>
    /\ applied' = <<>>
    /\ last' = NoLast

\* A call whose scene argument, if it has one, is a scene just boxed.
HostCall ==
    /\ pc = "idle"
    /\ \E m \in Methods : Callable(m) /\ Enter(m, Fresh)

\* pop and replace hand the removed scene back to the host (`Ok(old)`), which
\* owns it from then on and may pass it to the manager again: a call of push,
\* replace or apply whose scene argument is that scene.  (The scene gets the
\* name of a new scene; what identifies it is the history it brings along.)
HostReuse ==
    /\ pc = "idle"
    /\ ret.scene # 0
    /\ gone.enter < MaxLives
    /\ \E m \in {"push", "replace", "apply"} : Callable(m) /\ Enter(m, gone)

\* How a direct call ends: Ok / Err return to the host, a panic ends the program.
After(res) == IF res = "Panic" THEN "aborted" ELSE "idle"

\* SceneManager::apply
CallApply ==
    /\ pc = "apply"
    /\ \E trans \in Requests : \E o \in Reached(trans) :
         LET r == apply_to(trans, scenes, o)
         IN  /\ scenes' = r.scenes
             /\ applied' = <<trans>>
             /\ last' = Last("apply_to", "apply", trans, scenes, r)
             /\ ret' = Ret("apply", r.res, FALSE, 0)
             /\ pc' = After(r.res)
             /\ Track(r, incoming, TRUE)
    /\ UNCHANGED <<operations, idx, was_handled, walked, scenes0, ops0>>

\* SceneManager::push
CallPush ==
    /\ pc = "push"
    /\ \E o \in Vary({"enter"}) :
         LET r == push(NewScene, scenes, o)
         IN  /\ scenes' = r.scenes
             /\ last' = Last("push", "direct", PushT(NewScene), scenes, r)
             /\ ret' = Ret("push", r.res, FALSE, 0)
             /\ pc' = After(r.res)
             /\ Track(r, incoming, FALSE)
    /\ UNCHANGED <<operations, idx, was_handled, walked, applied, scenes0, ops0>>

\* SceneManager::pop
CallPop ==
    /\ pc = "pop"
    /\ \E o \in Vary({"leave"}) :
         LET r == pop(scenes, o)
         IN  /\ scenes' = r.scenes
             /\ last' = Last("pop", "direct", PopT, scenes, r)
             /\ ret' = Ret("pop", r.res, r.out # 0, r.out)
             /\ pc' = After(r.res)
             /\ Track(r, incoming, FALSE)
    /\ UNCHANGED <<operations, idx, was_handled, walked, applied, scenes0, ops0>>

\* SceneManager::replace
CallReplace ==
    /\ pc = "replace"
    /\ \E o \in Vary({"enter", "leave"}) :
         LET r == replace(NewScene, scenes, o)
         IN  /\ scenes' = r.scenes
             /\ last' = Last("replace", "direct", ReplaceT(NewScene), scenes, r)
             /\ ret' = Ret("replace", r.res, r.out # 0, r.out)
             /\ pc' = After(r.res)
             /\ Track(r, incoming, FALSE)
    /\ UNCHANGED <<operations, idx, was_handled, walked, applied, scenes0, ops0>>

\* on_create with the bug "the application always keeps running".
on_create_always(stk) == TRUE

\* on_create's `Ok(!self.scenes.is_empty())`
on_create(stk) == stk # <<>>

\* <SceneManager as sge::Application>::on_create
OnCreate ==
    /\ pc = "on_create"
    /\ ret' = Ret("on_create", "Ok", on_create(scenes), 0)
    /\ pc' = "idle"
    /\ UNCHANGED <<scenes, operations, idx, was_handled, walked, applied, last, scenes0, ops0>>
    /\ UNCHANGED history

\* ------------------------------------------------------------ frame dispatch
\* The start of a dispatch: the iterator self.scenes.iter_mut().rev() is
\* created at the top of the stack.
Begin(walk, apply) ==
    /\ idx' = Len(scenes)
    /\ pc' = IF scenes = <<>> THEN apply ELSE walk
    /\ UNCHANGED <<scenes, operations, was_handled, walked, applied, last, ret, scenes0, ops0>>
    /\ UNCHANGED history

\* update_continues with the bug "draw_next is ignored".
update_continues_always(dn) == TRUE

\* on_update's `if !scene.draw_next(..) { break; }`: whether the walk goes on.
update_continues(dn) == dn

\* event_continues with the bug "a handled event still propagates".
event_continues_unhandled(handled, dn) == dn

\* on_event's `if handled || !scene.draw_next(..) { break; }`
event_continues(handled, dn) == ~handled /\ dn

\* `was_handled |= handled`
or_handled(was, handled) == was \/ handled

\* early_return with the bug "an Err of the walk is kept for later and the
\* drain loop still runs".
early_return_drains(apply) == apply

\* The `?` on a scene's on_update / on_event result: an Err returns from the
\* method at once, so the drain loop (`apply`) is not entered.
early_return(apply) == "idle"

\* What a `?` inside the walk leaves in self.operations: the early return
\* skips the drain loop, so the transitions pushed so far stay in the buffer.
walk_error_leaves(ops) == ops

\* drain_rest with the bug "an error keeps the transitions not yet applied".
drain_rest_keeps(ops, res) == Tail(ops)

\* What remains to be applied after one `op.apply_to(..)?` of the loop over
\* self.operations.drain(..): the rest on Ok; on an early exit the Drain is
\* dropped, which removes every remaining element from the Vec.
drain_rest(ops, res) == IF res = "Ok" THEN Tail(ops) ELSE <<>>

\* The order in which the drain loop takes the recorded transitions.
next_op(ops) == Head(ops)

\* WalkOn with the bug "the walk does not move down: the same scene is
\* visited again while it draws through".
WalkOn_stays(continues, walk, apply) ==
    IF continues
    THEN idx' = idx /\ pc' = walk
    ELSE idx' = 0 /\ pc' = apply

\* The step after one visited scene: on to the scene below, or the walk is over.
WalkOn(continues, walk, apply) ==
    IF continues /\ idx > 1
    THEN idx' = idx - 1 /\ pc' = walk
    ELSE idx' = 0 /\ pc' = apply

\* on_update, first line
OnUpdateBegin ==
    /\ pc = "on_update"
    /\ Begin("update_walk", "update_apply")

\* on_update, one iteration of the walk
OnUpdateWalk ==
    /\ pc = "update_walk"
    /\ LET scene == scenes[idx]
       IN  \/ /\ walked' = Append(walked, Call("on_update", scene, FALSE, FALSE, NoneT, scenes))
              /\ operations' = walk_error_leaves(operations)
              /\ ret' = Ret("on_update", "Err", FALSE, 0)
              /\ pc' = early_return("update_apply")
              /\ idx' = 0
              /\ TrackWalkError
           \/ \E trans \in Requests, dn \in BOOLEAN :
                /\ walked' = walked \o <<Call("on_update", scene, FALSE, TRUE, trans, scenes),
                                       Call("draw_next", scene, dn, TRUE, NoneT, scenes)>>
                /\ operations' = Append(operations, trans)
                /\ WalkOn(update_continues(dn), "update_walk", "update_apply")
                /\ UNCHANGED <<ret, history>>
    /\ UNCHANGED <<scenes, was_handled, applied, last, scenes0, ops0>>

\* One iteration of `for op in self.operations.drain(..) { op.apply_to(..)?; }`
ApplyOne(op, apply) ==
    /\ operations # <<>>
    /\ \E o \in Reached(next_op(operations)) :
         LET trans == next_op(operations)
             r == apply_to(trans, scenes, o)
         IN  /\ scenes' = r.scenes
             /\ applied' = Append(applied, trans)
             /\ last' = Last("apply_to", op, trans, scenes, r)
             /\ operations' = drain_rest(operations, r.res)
             /\ pc' = CASE r.res = "Ok" -> apply
                        [] r.res = "Err" -> "idle"
                        [] OTHER -> "aborted"
             /\ ret' = IF r.res = "Ok" THEN ret ELSE Ret(op, r.res, FALSE, 0)
             /\ Track(r, Fresh, TRUE)
    /\ UNCHANGED <<idx, was_handled, walked, scenes0, ops0>>

\* on_update, the drain loop
OnUpdateApply ==
    /\ pc = "update_apply"
    /\ ApplyOne("on_update", "update_apply")

\* on_update, `Ok(!self.scenes.is_empty())`
OnUpdateReturn ==
    /\ pc = "update_apply"
    /\ operations = <<>>
    /\ ret' = Ret("on_update", "Ok", scenes # <<>>, 0)
    /\ pc' = "idle"
    /\ UNCHANGED <<scenes, operations, idx, was_handled, walked, applied, last, scenes0, ops0>>
    /\ UNCHANGED history

\* on_event, first lines (was_handled starts false)
OnEventBegin ==
    /\ pc = "on_event"
    /\ Begin("event_walk", "event_apply")

\* on_event, one iteration of the walk
OnEventWalk ==
    /\ pc = "event_walk"
    /\ LET scene == scenes[idx]
       IN  \/ /\ walked' = Append(walked, Call("on_event", scene, FALSE, FALSE, NoneT, scenes))
              /\ operations' = walk_error_leaves(operations)
              /\ ret' = Ret("on_event", "Err", FALSE, 0)
              /\ pc' = early_return("event_apply")
              /\ idx' = 0
              /\ TrackWalkError
              /\ UNCHANGED was_handled
           \/ \E trans \in Requests, handled \in BOOLEAN, dn \in BOOLEAN :
                /\ walked' = walked
                     \o <<Call("on_event", scene, handled, TRUE, trans, scenes)>>
                     \o (IF handled THEN <<>>
                         ELSE <<Call("draw_next", scene, dn, TRUE, NoneT, scenes)>>)
                /\ was_handled' = or_handled(was_handled, handled)
                /\ operations' = Append(operations, trans)
                /\ WalkOn(event_continues(handled, dn), "event_walk", "event_apply")
                /\ UNCHANGED <<ret, history>>
    /\ UNCHANGED <<scenes, applied, last, scenes0, ops0>>

\* on_event, the drain loop
OnEventApply ==
    /\ pc = "event_apply"
    /\ ApplyOne("on_event", "event_apply")

\* on_event, `Ok(was_handled)`
OnEventReturn ==
    /\ pc = "event_apply"
    /\ operations = <<>>
    /\ ret' = Ret("on_event", "Ok", was_handled, 0)
    /\ pc' = "idle"
    /\ UNCHANGED <<scenes, operations, idx, was_handled, walked, applied, last, scenes0, ops0>>
    /\ UNCHANGED history

Next ==
    \/ HostCall
    \/ CallApply
    \/ CallPush
    \/ CallPop
    \/ CallReplace
    \/ OnCreate
    \/ OnUpdateBegin
    \/ OnUpdateWalk
    \/ OnUpdateApply
    \/ OnUpdateReturn
    \/ OnEventBegin
    \/ OnEventWalk
    \/ OnEventApply
    \/ OnEventReturn

Spec == Init /\ [][Next]_vars

\* The same program with a host that also passes scenes it got back from pop
\* or replace to the manager again.
NextLife == Next \/ HostReuse

SpecLife == Init /\ [][NextLife]_vars

\* ------------------------------------------------------------------ claims
AllOk(cs) == \A i \in DOMAIN cs : cs[i].ok
Cbs(cs) == [i \in DOMAIN cs |-> cs[i].cb]
Targets(cs) == [i \in DOMAIN cs |-> cs[i].scene]

IsPush == last.op = "apply_to" /\ last.trans.kind = "Push"
IsReplace == last.op = "apply_to" /\ last.trans.kind = "Replace"
IsPop == last.op = "apply_to" /\ last.trans.kind = "Pop"

\* C1: a Push(B) transition on a stack with top A queries B.draw_next, then
\* calls A.on_pause with exactly that value, then B.on_enter, and B ends on
\* top with A directly below; on an empty stack it calls only B.on_enter and
\* the stack becomes <<B>>.  (A failing callback ends the sequence there.)
C1_PushOrder ==
    IsPush =>
        LET B == last.trans.scene
            c == last.calls
        IN  IF last.before = <<>>
            THEN /\ Cbs(c) = <<"on_enter">>
                 /\ c[1].scene = B
                 /\ c[1].ok => last.res = "Ok" /\ last.after = <<B>>
            ELSE /\ Len(c) \in {2, 3}
                 /\ Cbs(c) = SubSeq(<<"draw_next", "on_pause", "on_enter">>, 1, Len(c))
                 /\ Targets(c) = SubSeq(<<B, Top(last.before), B>>, 1, Len(c))
                 /\ c[2].flag = c[1].flag
                 /\ Len(c) = 3 <=> c[2].ok
                 /\ AllOk(c) => /\ Len(c) = 3
                                /\ last.res = "Ok"
                                /\ last.after = Append(last.before, B)

C1_Witness ==
    /\ IsPush
    /\ last.via = "on_update"
    /\ Len(last.before) = 2
    /\ last.res = "Ok"
    /\ last.calls[1].flag

\* C2: a Replace(B) transition on a non-empty stack with top A, no callback
\* failing, calls B.draw_next, A.on_pause (with that value), B.on_enter,
\* A.on_leave in this order; B is already in the top slot when A.on_leave
\* runs; the stack keeps its length and the scenes below the top keep their
\* places and get no callback.
C2_ReplaceOrder ==
    (IsReplace /\ last.before # <<>> /\ AllOk(last.calls)) =>
        LET B == last.trans.scene
            A == Top(last.before)
            c == last.calls
        IN  /\ Cbs(c) = <<"draw_next", "on_pause", "on_enter", "on_leave">>
            /\ Targets(c) = <<B, A, B, A>>
            /\ c[2].flag = c[1].flag
            /\ c[3].stk = last.before
            /\ Top(c[4].stk) = B
            /\ last.res = "Ok"
            /\ last.after = Append(Below(last.before), B)
            /\ Len(last.after) = Len(last.before)
            /\ \A i \in 1..(Len(last.before) - 1) :
                 /\ last.after[i] = last.before[i]
                 /\ \A j \in DOMAIN c : c[j].scene # last.before[i]

C2_Witness ==
    /\ IsReplace
    /\ last.via = "on_event"
    /\ Len(last.before) = 3
    /\ last.res = "Ok"

\* C3 as stated: every pop that leaves a scene below the top (a Pop
\* transition and SceneManager::pop alike) calls the removed scene's on_leave
\* and then the new top's on_unpause, and nothing else.
C3_Original ==
    (/\ last.trans.kind = "Pop"
     /\ last.op \in {"apply_to", "pop"}
     /\ Len(last.before) >= 2
     /\ AllOk(last.calls)) =>
        /\ Cbs(last.calls) = <<"on_leave", "on_unpause">>
        /\ Targets(last.calls) = <<Top(last.before), Top(Below(last.before))>>

\* C3 amended: a Pop transition that leaves a scene below the top calls the
\* removed scene's on_leave and then, if that succeeded, the new top's
\* on_unpause, and nothing else; SceneManager::pop calls only the removed
\* scene's on_leave and never on_unpause.
C3_PopOrder ==
    /\ (IsPop /\ Len(last.before) >= 2) =>
          LET c == last.calls
          IN  /\ Len(c) \in {1, 2}
              /\ Cbs(c) = SubSeq(<<"on_leave", "on_unpause">>, 1, Len(c))
              /\ Targets(c) = SubSeq(<<Top(last.before), Top(Below(last.before))>>, 1, Len(c))
              /\ c[1].stk = Below(last.before)
              /\ Len(c) = 2 <=> c[1].ok
              /\ last.after = Below(last.before)
    /\ (last.op = "pop" /\ Len(last.before) >= 2) =>
          /\ Cbs(last.calls) = <<"on_leave">>
          /\ Targets(last.calls) = <<Top(last.before)>>
          /\ last.after = Below(last.before)

C3_Witness ==
    /\ IsPop
    /\ last.via = "on_update"
    /\ Len(last.before) = 3
    /\ Len(last.calls) = 2
    /\ last.res = "Ok"

\* The scenes the walk has visited (one on_update / on_event call each), and
\* the transitions those calls returned.
Visits == SelectSeq(walked, LAMBDA c : c.cb \in {"on_update", "on_event"})
Recorded ==
    LET got == SelectSeq(Visits, LAMBDA c : c.ok)
    IN  [i \in 1..Len(got) |-> got[i].trans]
IsPrefix(a, b) == Len(a) <= Len(b) /\ SubSeq(b, 1, Len(a)) = a
TopDown == \A k \in 1..Len(Visits) :
              /\ k <= Len(scenes0)
              /\ Visits[k].scene = scenes0[Len(scenes0) - k + 1]
              /\ Visits[k].stk = scenes0
WalkOver == pc \in {"update_apply", "event_apply", "idle", "aborted"}

\* C4: in one on_update call with no callback failing, the scenes visited
\* are the top scene and then, going down, the next scene as long as the one
\* just visited has draw_next = true; one transition is recorded per visited
\* scene; nothing is mutated and no lifecycle callback runs before the walk is
\* over; the recorded transitions are then applied in visit order.
C4_UpdateWalk ==
    ret.op = "on_update" =>
        /\ TopDown
        /\ \A i \in DOMAIN walked :
             IF i % 2 = 1
             THEN walked[i].cb = "on_update"
             ELSE /\ walked[i].cb = "draw_next"
                  /\ walked[i].scene = walked[i - 1].scene
                  /\ walked[i - 1].ok
                  /\ i < Len(walked) => walked[i].flag
        /\ pc = "update_walk" =>
             /\ scenes = scenes0
             /\ last = NoLast
             /\ applied = <<>>
             /\ Len(walked) = 2 * Len(Visits)
             /\ Len(Visits) < Len(scenes0)
             /\ walked # <<>> => walked[Len(walked)].flag
             /\ Len(Recorded) = Len(Visits)
             /\ operations = ops0 \o Recorded
        /\ (WalkOver /\ AllOk(walked)) =>
             /\ Len(walked) = 2 * Len(Visits)
             /\ Visits = <<>> <=> scenes0 = <<>>
             /\ Visits # <<>> => (~walked[Len(walked)].flag \/ Len(Visits) = Len(scenes0))
             /\ Len(Recorded) = Len(Visits)
             /\ IsPrefix(applied, ops0 \o Recorded)
             /\ pc = "update_apply" => applied \o operations = ops0 \o Recorded
             /\ ret.res = "Ok" => applied = ops0 \o Recorded

C4_Witness ==
    /\ ret.op = "on_update"
    /\ ret.res = "Ok"
    /\ Len(scenes0) = 3
    /\ ops0 = <<>>
    /\ Len(Visits) = 2
    /\ walked[2].flag
    /\ ~walked[4].flag
    /\ applied = <<ReplaceT(4), PopT>>

\* C5: if a scene's on_update fails during the walk, no scene below it is
\* visited, no transition collected earlier in that walk is applied (the stack
\* is unchanged, no lifecycle callback runs) and the call returns the error.
C5_UpdateWalkError ==
    (ret.op = "on_update" /\ ~AllOk(walked)) =>
        /\ walked[Len(walked)].cb = "on_update"
        /\ ~walked[Len(walked)].ok
        /\ AllOk(SubSeq(walked, 1, Len(walked) - 1))
        /\ TopDown
        /\ pc = "idle"
        /\ ret.res = "Err"
        /\ scenes = scenes0
        /\ last = NoLast
        /\ applied = <<>>

C5_Witness ==
    /\ ret.op = "on_update"
    /\ ret.res = "Err"
    /\ Len(scenes0) = 3
    /\ Len(walked) = 3
    /\ walked[1].trans.kind = "Pop"
    /\ ~walked[3].ok

\* C6: at the start of every on_update or on_event call, whatever calls came
\* before (calls that returned an error in the walk or while applying
\* included), the operations buffer is empty.
C6_BufferEmptyAtDispatch ==
    pc \in {"on_update", "on_event"} => operations = <<>>

\* C7: in one on_event call with no callback failing, the walk stops at the
\* first visited scene that reports handled (whatever its draw_next), the
\* transition of every visited scene, the handling one included, is recorded
\* and applied, and the call returns true iff some visited scene handled it.
C7_EventWalk ==
    ret.op = "on_event" =>
        /\ TopDown
        /\ \A i \in DOMAIN walked :
             (walked[i].cb = "on_event" /\ walked[i].ok /\ walked[i].flag) => i = Len(walked)
        /\ \A i \in DOMAIN walked :
             walked[i].cb = "draw_next" =>
                /\ i > 1
                /\ walked[i - 1].cb = "on_event"
                /\ walked[i - 1].scene = walked[i].scene
                /\ i < Len(walked) => walked[i].flag
        /\ pc = "event_walk" =>
             /\ scenes = scenes0
             /\ last = NoLast
             /\ applied = <<>>
             /\ ~was_handled
             /\ Len(Recorded) = Len(Visits)
             /\ operations = ops0 \o Recorded
        /\ (WalkOver /\ AllOk(walked)) =>
             /\ Len(Recorded) = Len(Visits)
             /\ IsPrefix(applied, ops0 \o Recorded)
             /\ pc = "event_apply" => applied \o operations = ops0 \o Recorded
             /\ ret.res = "Ok" =>
                  /\ applied = ops0 \o Recorded
                  /\ ret.val <=> \E k \in DOMAIN Visits : Visits[k].flag

C7_Witness ==
    /\ ret.op = "on_event"
    /\ ret.res = "Ok"
    /\ ret.val
    /\ Len(scenes0) = 3
    /\ ops0 = <<>>
    /\ Len(Visits) = 2
    /\ Visits[2].flag
    /\ applied = <<NoneT, ReplaceT(4)>>

\* C8: a successful on_update returns true iff the stack is non-empty after
\* the transitions of that call have been applied; in particular it returns
\* false when the call starts with an empty stack.
C8_UpdateReturn ==
    (ret.op = "on_update" /\ ret.res = "Ok") =>
        /\ ret.val <=> scenes # <<>>
        /\ scenes0 = <<>> => ~ret.val

\* C9: Replace on an empty stack (a Replace transition, or
\* SceneManager::replace) is a fatal abort, never a returned error; no
\* callback of the new scene runs and the new scene is not added to the stack.
C9_ReplaceEmpty ==
    /\ (/\ last.trans.kind = "Replace"
        /\ last.op \in {"apply_to", "replace"}
        /\ last.before = <<>>) =>
          /\ last.res = "Panic"
          /\ ret.res = "Panic"
          /\ pc = "aborted"
          /\ last.calls = <<>>
          /\ last.after = <<>>
          /\ scenes = <<>>
    /\ pc = "aborted" =>
          /\ last.trans.kind = "Replace"
          /\ last.before = <<>>

C9_Witness ==
    /\ pc = "aborted"
    /\ last.op = "replace"
    /\ ret.op = "replace"

\* C10: popping a stack of exactly one scene calls that scene's on_leave and
\* no on_unpause and leaves the stack empty; popping an empty stack (Pop
\* transition or SceneManager::pop) succeeds, calls nothing, leaves the stack
\* empty, and SceneManager::pop returns no scene.
C10_PopEdge ==
    (last.trans.kind = "Pop" /\ last.op \in {"apply_to", "pop"}) =>
        /\ Len(last.before) = 1 =>
             /\ Cbs(last.calls) = <<"on_leave">>
             /\ Targets(last.calls) = last.before
             /\ last.after = <<>>
             /\ scenes = <<>>
        /\ last.before = <<>> =>
             /\ last.res = "Ok"
             /\ last.calls = <<>>
             /\ last.after = <<>>
             /\ scenes = <<>>
             /\ pc # "aborted"
             /\ last.op = "pop" => (ret.res = "Ok" /\ ~ret.val /\ ret.scene = 0)

C10_Witness ==
    /\ last.op = "pop"
    /\ last.before = <<>>
    /\ ret.op = "pop"
    /\ ret.res = "Ok"

\* C11: on_create returns true iff the stack holds at least one scene when it
\* is called (false on a freshly constructed manager), changes neither the
\* stack nor the operations buffer and invokes no scene callback.
C11_OnCreate ==
    (ret.op = "on_create" /\ pc = "idle") =>
        /\ ret.res = "Ok"
        /\ ret.val <=> scenes0 # <<>>
        /\ scenes = scenes0
        /\ operations = ops0
        /\ walked = <<>>
        /\ applied = <<>>
        /\ last = NoLast

C11_Witness ==
    /\ ret.op = "on_create"
    /\ pc = "idle"
    /\ ret.val
    /\ Len(scenes) = 2

\* The on_enter / on_leave invocations among `cs`, in order.
Lifecycle(cs) == SelectSeq(cs, LAMBDA c : c.cb \in {"on_enter", "on_leave"})

IsDirect == last.op \in {"push", "pop", "replace"}

\* What apply_to does with the same transition on the same stack when the
\* neighbours' callbacks (on_pause, on_unpause) succeed and on_enter /
\* on_leave behave as they did in the direct call.
AsTransition(dn) ==
    LET enters == {c \in Range(last.calls) : c.cb = "on_enter"}
        leaves == {c \in Range(last.calls) : c.cb = "on_leave"}
    IN  apply_to(last.trans, last.before,
                 [dn |-> dn, pause |-> TRUE, unpause |-> TRUE,
                  enter |-> \A c \in enters : c.ok,
                  leave |-> \A c \in leaves : c.ok])

\* C12: SceneManager::push / pop / replace invoke on_enter and on_leave in the
\* same order, at the same moments relative to the stack change, and leave
\* the same stack as the corresponding Transition: push enters the new scene
\* before appending it, pop removes the top and then calls its on_leave,
\* replace calls on_enter on the new scene before on_leave on the displaced
\* one and returns the displaced scene.
C12_DirectLikeTransition ==
    (IsDirect /\ pc = "idle") =>
        /\ \A dn \in BOOLEAN :
             /\ Lifecycle(AsTransition(dn).calls) = last.calls
             /\ AsTransition(dn).scenes = last.after
             /\ AsTransition(dn).res = last.res
        /\ last.op = "push" =>
             /\ Len(last.calls) = 1
             /\ last.calls[1].cb = "on_enter"
             /\ last.calls[1].stk = last.before
             /\ last.after = IF last.res = "Ok"
                             THEN Append(last.before, last.trans.scene)
                             ELSE last.before
        /\ (last.op = "pop" /\ last.before # <<>>) =>
             /\ Len(last.calls) = 1
             /\ last.calls[1].cb = "on_leave"
             /\ last.calls[1].scene = Top(last.before)
             /\ last.calls[1].stk = Below(last.before)
             /\ last.after = Below(last.before)
        /\ (last.op = "replace" /\ last.res = "Ok") =>
             /\ Cbs(last.calls) = <<"on_enter", "on_leave">>
             /\ Targets(last.calls) = <<last.trans.scene, Top(last.before)>>
             /\ last.calls[1].stk = last.before
             /\ last.calls[2].stk = last.after
             /\ last.after = Append(Below(last.before), last.trans.scene)
             /\ ret.scene = Top(last.before)

C12_Witness ==
    /\ pc = "idle"
    /\ last.op = "replace"
    /\ last.res = "Ok"
    /\ Len(last.before) >= 2
    /\ ret.scene = Top(last.before)

\* C13: a Push transition appends the new scene only after on_pause (when
\* there is a top) and on_enter have both succeeded; if either fails the
\* stack is exactly as before and the error is returned; when on_pause fails,
\* on_enter is never called.
C13_PushAtomic ==
    IsPush =>
        LET c == last.calls
            pauses == {i \in DOMAIN c : c[i].cb = "on_pause"}
            enters == {i \in DOMAIN c : c[i].cb = "on_enter"}
        IN  /\ \A i \in DOMAIN c : c[i].stk = last.before
            /\ last.after # last.before =>
                 /\ AllOk(c)
                 /\ enters # {}
                 /\ last.before # <<>> => pauses # {}
            /\ ~AllOk(c) =>
                 /\ last.after = last.before
                 /\ scenes = last.before
                 /\ last.res = "Err"
                 /\ ret.res = "Err"
                 /\ pc = "idle"
            /\ (\E i \in pauses : ~c[i].ok) => enters = {}

C13_Witness ==
    /\ IsPush
    /\ last.via = "on_update"
    /\ \E i \in DOMAIN last.calls : last.calls[i].cb = "on_pause" /\ ~last.calls[i].ok
    /\ scenes = last.before
    /\ ret.res = "Err"

InDispatch == last.op = "apply_to" /\ last.via \in {"on_update", "on_event"}

\* The transitions the drain loop had to apply in this call, in order.
Queued == ops0 \o Recorded

\* C14: when a lifecycle callback fails while on_update / on_event applies
\* the recorded transitions, the call returns the error at once and the
\* transitions queued after the failing one are applied neither in that call
\* nor later: they are gone from the buffer when the call returns.
C14_ApplyErrorDropsRest ==
    (InDispatch /\ last.res = "Err") =>
        /\ pc = "idle"
        /\ ret = Ret(last.via, "Err", FALSE, 0)
        /\ IsPrefix(applied, Queued)
        /\ applied[Len(applied)] = last.trans
        /\ scenes = last.after
        /\ operations = <<>>

C14_Witness ==
    /\ InDispatch
    /\ last.res = "Err"
    /\ ops0 = <<>>
    /\ Len(applied) = 1
    /\ Len(Queued) = 3
    /\ Queued[2].kind = "Pop"
    /\ Queued[3].kind = "Replace"

\* The last transition applied called on_leave and it failed.
LeaveFailed ==
    /\ last.op = "apply_to"
    /\ \E i \in DOMAIN last.calls : last.calls[i].cb = "on_leave" /\ ~last.calls[i].ok

\* C15: a failing on_leave does not roll the change back.  In a Pop the
\* removed scene is already gone and the new top's on_unpause is not called;
\* in a Replace the new scene stays installed as the top; the error is
\* returned in both.
C15_LeaveFailureNoRollback ==
    LeaveFailed =>
        LET c == last.calls
            old == Top(last.before)
        IN  /\ last.before # <<>>
            /\ c[Len(c)].cb = "on_leave"
            /\ c[Len(c)].scene = old
            /\ c[Len(c)].stk = last.after
            /\ old \notin Range(last.after)
            /\ \A i \in DOMAIN c : c[i].cb # "on_unpause"
            /\ IsPop => last.after = Below(last.before) /\ Len(c) = 1
            /\ IsReplace => last.after = Append(Below(last.before), last.trans.scene)
            /\ scenes = last.after
            /\ last.res = "Err"
            /\ ret.res = "Err"
            /\ pc = "idle"

C15_Witness ==
    /\ LeaveFailed
    /\ IsPop
    /\ Len(last.before) = 3
    /\ Len(scenes) = 2
    /\ ret.res = "Err"

\* A Replace whose on_leave failed, reached from frame dispatch.
C15_WitnessReplace ==
    /\ LeaveFailed
    /\ IsReplace
    /\ last.via = "on_event"
    /\ Top(scenes) = last.trans.scene

\* A call of on_update / on_event that started with an empty buffer.
FreshDispatch == ret.op \in {"on_update", "on_event"} /\ ops0 = <<>>

\* C17: in an on_update / on_event call that starts with an empty operations
\* buffer, neither Replace nor Pop is ever applied to an empty stack (the
\* abort is unreachable): at most one transition is recorded per scene of the
\* stack at the start of the call, and the k-th of them finds at least
\* Len(scenes0) - k + 1 scenes.
C17_NoEmptyStackInFreshDispatch ==
    FreshDispatch =>
        /\ pc # "aborted"
        /\ Len(Recorded) <= Len(scenes0)
        /\ Len(applied) <= Len(Recorded)
        /\ Len(scenes) >= Len(scenes0) - Len(applied)
        /\ (InDispatch /\ last.trans.kind \in {"Pop", "Replace"}) =>
             /\ last.before # <<>>
             /\ last.res # "Panic"
             /\ Len(last.before) >= Len(scenes0) - Len(applied) + 1

C17_Witness ==
    /\ FreshDispatch
    /\ pc = "idle"
    /\ Len(scenes0) = 2
    /\ Len(applied) = 2
    /\ applied[1].kind = "Pop"
    /\ applied[2].kind = "Replace"
    /\ Len(last.before) = 1
    /\ last.res = "Ok"

\* The transition just applied was requested by the j-th visited scene, a
\* scene below the top, and every scene above it returned None.
RequestedBelow(j) ==
    /\ FreshDispatch
    /\ InDispatch
    /\ j >= 2
    /\ Len(applied) = j
    /\ j <= Len(Visits)
    /\ \A k \in 1..(j - 1) : Visits[k].trans = NoneT
    /\ Visits[j].trans = last.trans
    /\ last.trans # NoneT

C18_WitnessPop ==
    /\ RequestedBelow(2)
    /\ last.trans.kind = "Pop"
    /\ last.res = "Ok"
    /\ Top(scenes) = Visits[2].scene

C18_WitnessPush ==
    /\ RequestedBelow(2)
    /\ last.trans.kind = "Push"
    /\ last.res = "Ok"
    /\ Len(scenes) = 3

\* C20: the direct methods never notify neighbouring scenes.  push calls
\* neither draw_next nor on_pause, pop calls no on_unpause, replace calls
\* neither draw_next nor on_pause; the only callbacks are on_enter on the
\* incoming scene and on_leave on the outgoing scene.
C20_DirectNoNeighbours ==
    IsDirect =>
        LET c == last.calls
        IN  /\ \A i \in DOMAIN c :
                 \/ c[i].cb = "on_enter" /\ c[i].scene = last.trans.scene
                                         /\ last.op \in {"push", "replace"}
                 \/ c[i].cb = "on_leave" /\ c[i].scene = Top(last.before)
                                         /\ last.op \in {"pop", "replace"}
            /\ Len(c) <= (IF last.op = "replace" THEN 2 ELSE 1)
            /\ \A i \in DOMAIN c :
                 c[i].scene \notin Range(Below(last.before))

C20_Witness ==
    /\ last.op = "push"
    /\ last.res = "Ok"
    /\ Len(last.before) = 2
    /\ Cbs(last.calls) = <<"on_enter">>
    /\ pc = "idle"

\* pop with a scene left below, and replace
C20_WitnessPop ==
    /\ last.op = "pop"
    /\ Len(last.before) = 2
    /\ Cbs(last.calls) = <<"on_leave">>
    /\ last.res = "Ok"

\* C19: pause balance.  While the stack has been changed only through
\* transitions (apply, on_update, on_event) and no callback has failed:
\* between calls every scene below the top has received exactly one more
\* on_pause than on_unpause and the top equally many of both; and on_unpause
\* is never called on a scene that is not paused (no balance goes below 0).
C19_PauseBalance ==
    clean =>
        /\ Len(balance) = Len(scenes)
        /\ \A i \in DOMAIN balance : balance[i] >= 0
        /\ pc = "idle" =>
             \A i \in DOMAIN balance :
                 balance[i] = IF i = Len(scenes) THEN 0 ELSE 1
        /\ \A i \in DOMAIN last.calls :
             (last.calls[i].cb = "on_unpause") =>
                 /\ last.calls[i].scene = Top(last.after)
                 /\ last.calls[i].scene = last.before[Len(last.before) - 1]

\* After a Replace and a Push applied in one dispatch.
C19_Witness ==
    /\ clean
    /\ pc = "idle"
    /\ ret.op = "on_update"
    /\ Len(scenes0) = 2
    /\ Len(applied) = 2
    /\ applied[1].kind = "Replace"
    /\ applied[2].kind = "Push"
    /\ balance = <<1, 1, 0>>

\* After two Pops applied in one dispatch to a stack of three.
C19_WitnessPop ==
    /\ clean
    /\ pc = "idle"
    /\ ret.op = "on_event"
    /\ Len(scenes0) = 3
    /\ applied = <<PopT, PopT>>
    /\ balance = <<0>>

\* on_leave goes only to the scene the latest mutation has just taken off the
\* stack, once; on_enter only to the scene it brings, once, before it is put
\* on the stack; a scene that stays gets neither.
AroundRemoval ==
    LET c == last.calls
    IN  /\ \A i \in DOMAIN c :
             /\ c[i].cb = "on_leave" =>
                  /\ last.before # <<>>
                  /\ c[i].scene = Top(last.before)
                  /\ c[i].scene \notin Range(c[i].stk)
                  /\ c[i].scene \notin Range(last.after)
                  /\ Count(c, "on_leave", c[i].scene) = 1
             /\ c[i].cb = "on_enter" =>
                  /\ c[i].scene = last.trans.scene
                  /\ c[i].scene \notin Range(c[i].stk)
                  /\ Count(c, "on_enter", c[i].scene) = 1
        /\ \A s \in Range(last.after) \ Range(last.before) :
             \E i \in DOMAIN c : c[i].cb = "on_enter" /\ c[i].scene = s /\ c[i].ok

\* C16 as stated: every scene on the stack has had on_enter called exactly
\* once, successfully, and never on_leave; on_leave is called at most once on
\* any scene, only on a scene just removed from the stack.
C16_Original ==
    /\ \A i \in DOMAIN lives : lives[i].enter = 1 /\ lives[i].leave = 0
    /\ gone.leave <= 1
    /\ AroundRemoval

\* C16, amended: every scene on the stack has received on_enter exactly once,
\* successfully, and no on_leave since it was put on the stack; counted over
\* its whole life it has one more on_enter than on_leave, and a scene taken
\* off the stack as many of one as of the other.  on_leave is called once per
\* stay on the stack, only on the scene just removed.  (A scene that pop or
\* replace handed back and the host passes in again is entered again.)
C16_Lifecycle ==
    /\ Len(lives) = Len(scenes)
    /\ \A i \in DOMAIN lives : lives[i].enter = lives[i].leave + 1
    /\ gone.leave = gone.enter
    /\ incoming.leave = incoming.enter
    /\ ret.scene # 0 => gone.enter >= 1
    /\ AroundRemoval

\* A scene that was popped and pushed again is on top of the stack.
C16_Witness ==
    /\ pc = "idle"
    /\ last.op = "push"
    /\ last.res = "Ok"
    /\ Len(scenes) = 2
    /\ lives[2] = [enter |-> 2, leave |-> 1]
    /\ lives[1] = [enter |-> 1, leave |-> 0]
====
